---- MODULE Spec2Model ----
(***************************************************************************)
(* Model of multiple_layers.py: a Flask server that discovers shapefiles   *)
(* in the 'data' directory at startup and serves each one as GeoJSON       *)
(* through get_geodata, with the module-level dictionary geodata_cache     *)
(* memoizing the serialized result per layer name.                         *)
(*                                                                         *)
(* Strings that the code takes apart (file names, layer names) are         *)
(* sequences of one-character strings.  A Python dict is an ordered        *)
(* sequence of <<key, value>> pairs with distinct keys (insertion order).  *)
(* Every request is handled by one worker thread; one action is one        *)
(* statement (group) of get_geodata that touches shared state at most once.*)
(***************************************************************************)
EXTENDS Integers, Sequences, FiniteSets, TLC

\* ---------------------------------------------------------------- bounds

\* Number of worker threads that handle requests concurrently.
NumWorkers == 2
\* Total number of get_geodata requests in one run of the process.
MaxRequests == 2
\* Number of changes the environment makes to the data directory.
MaxFsChanges == 1
\* Number of calls of discover_shapefiles on one directory.
MaxDiscoverCalls == 2

Workers == 1..NumWorkers

\* ---------------------------------------------------------------- strings

\* Code points of the characters used (Python orders strings by code point).
Ord(c) ==
    CASE c = "." -> 46
      [] c = "/" -> 47
      [] c = "a" -> 97
      [] c = "b" -> 98
      [] c = "h" -> 104
      [] c = "p" -> 112
      [] c = "s" -> 115
      [] c = "x" -> 120

\* s < t for Python strings.
RECURSIVE StrLess(_, _)
StrLess(s, t) ==
    IF t = << >> THEN FALSE
    ELSE IF s = << >> THEN TRUE
    ELSE IF Head(s) # Head(t) THEN Ord(Head(s)) < Ord(Head(t))
    ELSE StrLess(Tail(s), Tail(t))

StrLeq(s, t) == s = t \/ StrLess(s, t)

\* str.endswith
EndsWith(s, suffix) ==
    /\ Len(s) >= Len(suffix)
    /\ SubSeq(s, Len(s) - Len(suffix) + 1, Len(s)) = suffix

\* s.rfind('.') , 1-based, 0 when there is none
RFindDot(s) ==
    LET dots == {i \in 1..Len(s) : s[i] = "."}
    IN  IF dots = {} THEN 0 ELSE CHOOSE i \in dots : \A j \in dots : j <= i

\* os.path.splitext(p)[0] for a name without directory separator: the part
\* before the last dot, unless that dot only follows leading dots.
SplitExtRoot(p) ==
    LET dotIndex == RFindDot(p)
    IN  IF dotIndex > 0 /\ \E i \in 1..(dotIndex - 1) : p[i] # "."
        THEN SubSeq(p, 1, dotIndex - 1)
        ELSE p

DotShp == <<".", "s", "h", "p">>

\* SHAPEFILE_FOLDER = 'data'; os.path.join(SHAPEFILE_FOLDER, f"{layer_name}.shp")
\* A path is the file's name inside the data directory when the joined path
\* stays inside it; a name holding a separator leaves the directory.
ShapefilePath(layer_name) == layer_name \o DotShp

\* ---------------------------------------------------------------- dicts

DictKeys(d) == {d[i][1] : i \in 1..Len(d)}
DictHas(d, k) == k \in DictKeys(d)
DictGet(d, k) == d[CHOOSE i \in 1..Len(d) : d[i][1] = k][2]
\* d[k] = v: an existing key keeps its place, a new key goes last.
DictSet(d, k, v) ==
    IF DictHas(d, k)
    THEN [i \in 1..Len(d) |-> IF d[i][1] = k THEN <<k, v>> ELSE d[i]]
    ELSE Append(d, <<k, v>>)

\* Python's None
None == [kind |-> "None"]

\* ---------------------------------------------------------------- data

LayerA == <<"a">>
LayerB == <<"b">>
\* "../a": a name that would leave the data directory.
Traversal == <<".", ".", "/", "a">>

\* Names a client may put in /api/data/<layer_name>.
RequestNames == {LayerA, LayerB, Traversal}

FileA == LayerA \o DotShp
FileB == LayerB \o DotShp
\* a companion file of a shapefile: listed, never a layer
FileAux == <<"a", ".", "s", "h", "x">>
FileNames == {FileA, FileB, FileAux}
ShpFiles == {FileA, FileB}
\* names a directory may hold besides: a name that is nothing but the
\* extension, a name with the extension twice, a name with an inner dot
FileDot == DotShp
FileDotDot == DotShp \o DotShp
FileInner == <<"b", ".", "a">> \o DotShp
DiscoveryFiles == FileNames \cup {FileDot, FileDotDot, FileInner}

\* contents of a file of the data directory
NoFile == [kind |-> "nofile"]
Corrupt == [kind |-> "corrupt"]
Aux == [kind |-> "aux"]

\* A readable dataset: its CRS, its attribute columns and one row per feature.
DsCounties ==
    [kind |-> "dataset", crs |-> "EPSG:3734",
     columns |-> <<"name", "district", "other">>,
     rows |-> << [geometry |-> 1, values |-> <<"Franklin", "12", "ignored">>],
                 [geometry |-> 2, values |-> <<"Adams", "7", "x">>] >>]
DsDistricts ==
    [kind |-> "dataset", crs |-> "EPSG:4326",
     columns |-> <<"district", "other">>,
     rows |-> << [geometry |-> 3, values |-> <<"12", "ignored">>] >>]
\* a dataset without a CRS (no .prj): to_crs raises on it
DsNoCrs ==
    [kind |-> "dataset", crs |-> "None",
     columns |-> <<"name">>,
     rows |-> << [geometry |-> 4, values |-> <<"Lucas">>] >>]

Datasets == {DsCounties, DsDistricts, DsNoCrs}
ShpContents == Datasets \cup {Corrupt, NoFile}

\* FIELD_MAPPING tables the process may be started with: layer -> policy,
\* both dicts.  RegistrySource has the shape of the table in the source
\* (a layer with two rename pairs, one of them for a column the dataset may
\* lack; another layer without entry).
RegistrySource ==
    << <<LayerA, << <<"name", "County Name">>, <<"county_sea", "County Seat">> >> >> >>
RegistryDistrict ==
    << <<LayerA, << <<"district", "Senate District #">> >> >>,
       <<LayerB, << >> >> >>
RegistryTitle ==
    << <<LayerA, << <<"name", "County Name">>, <<"__title__", "name">> >> >>,
       <<LayerB, << <<"__title__", "name">>, <<"district", "House District #">> >> >> >>
RegistryTitleOnly ==
    << <<LayerA, << <<"__title__", "name">> >> >>,
       <<LayerB, << <<"district", "Label">>, <<"other", "Label">> >> >> >>
RegistryChoices ==
    {RegistrySource, RegistryDistrict, RegistryTitle, RegistryTitleOnly}

\* ---------------------------------------------------------------- state

VARIABLES
    threaded,         \* app.run(threaded=...): requests are served concurrently
    isdir,            \* os.path.isdir(SHAPEFILE_FOLDER)
    disk,             \* the data directory: file name -> contents
    cwd,              \* files the process wrote in its working directory
    FIELD_MAPPING,    \* the registry the process was started with
    AVAILABLE_LAYERS, \* computed once at import
    calls,            \* calls of discover_shapefiles so far
    geodata_cache,    \* dict layer_name -> GeoJSON string
    pc,               \* per worker: its place in get_geodata
    layer_name,       \* per worker: the argument of get_geodata
    gdf,              \* per worker: local gdf
    geodata_json,     \* per worker: local geodata_json
    processed_json_string, \* per worker: local processed_json_string
    resp,             \* per worker: the response of its last request
    loads,            \* per request: calls of gpd.read_file
    cacheOps,         \* per request: accesses to geodata_cache
    stored,           \* per request: it assigned geodata_cache[layer_name]
    exc,              \* per request: the exception its except clause caught
    prior,            \* per request: the request that completed last before it began
    layers_response,  \* the response of the last GET /api/layers
    last,             \* the last completed request (kept when requests are
                      \* served one at a time): its layer and response
    nRequests,        \* requests received so far
    nFsChanges        \* changes of the data directory so far

workerVars == <<pc, layer_name, gdf, geodata_json, processed_json_string, resp,
                loads, cacheOps, stored, exc, prior>>
vars == <<threaded, isdir, disk, cwd, FIELD_MAPPING, AVAILABLE_LAYERS, calls, geodata_cache,
          workerVars, layers_response, last, nRequests, nFsChanges>>

\* ---------------------------------------------------------------- discovery

\* the entries of the directory
ListDir == {f \in DOMAIN disk : disk[f] # NoFile}

\* os.listdir(directory): the entries, each once, in an order the file
\* system chooses
Orders(S) ==
    {o \in [1..Cardinality(S) -> S] : \A i, j \in 1..Cardinality(S) : i # j => o[i] # o[j]}

\* lines 79-82: the loop appends the base name of every entry that ends
\* with '.shp', in the order of the listing
Shapefiles(listing) ==
    LET shp == SelectSeq(listing, LAMBDA filename : EndsWith(filename, DotShp))
    IN  [i \in 1..Len(shp) |-> SplitExtRoot(shp[i])]

\* sorted(list): ascending, equal elements all kept
Insert(list, x) ==
    LET k == Cardinality({i \in 1..Len(list) : StrLeq(list[i], x)})
    IN  SubSeq(list, 1, k) \o <<x>> \o SubSeq(list, k + 1, Len(list))

RECURSIVE Sorted(_)
Sorted(list) ==
    IF list = << >> THEN << >>
    ELSE Insert(Sorted(SubSeq(list, 1, Len(list) - 1)), list[Len(list)])

discover_shapefiles(exists, listing) ==
    IF ~exists THEN << >>
    ELSE Sorted(Shapefiles(listing))

\* Variant without the allow-list: every name passes.
InAvailableLayers_Any(name) == TRUE

\* layer_name in AVAILABLE_LAYERS
InAvailableLayers(name) ==
    \E i \in 1..Len(AVAILABLE_LAYERS) : AVAILABLE_LAYERS[i] = name

\* ---------------------------------------------------------------- pipeline

\* The geometry g of a dataset in CRS src, expressed in EPSG:4326.
Transform(src, g) == [wgs84_of |-> g, from |-> src]

\* gpd.read_file(shapefile_path, encoding='utf-8'): raises unless the file
\* is a readable dataset.
Readable(path) == path \in DOMAIN disk /\ disk[path].kind = "dataset"
read_file(path) == disk[path]

\* gdf.to_crs(epsg=4326): raises on a dataset without CRS.
CanReproject(g) == g.crs # "None"
to_crs(g) ==
    [g EXCEPT !.crs = "EPSG:4326",
              !.rows = [i \in 1..Len(g.rows) |->
                          [g.rows[i] EXCEPT !.geometry = Transform(g.crs, @)]]]

\* json.dumps / json.loads: a string is the document wrapped as text.
Dumps(doc) == [json |-> doc]
Loads(text) == text.json

\* gdf.to_json(): every feature carries every column of the dataset.
to_json(g) ==
    Dumps([type |-> "FeatureCollection",
           features |-> [i \in 1..Len(g.rows) |->
               [type |-> "Feature",
                geometry |-> g.rows[i].geometry,
                properties |-> [j \in 1..Len(g.columns) |->
                                   <<g.columns[j], g.rows[i].values[j]>>]]]])

\* mapping = FIELD_MAPPING.get(layer_name), guarded by MappingApplies
FieldMappingGet(name) == DictGet(FIELD_MAPPING, name)

\* `if mapping:` -- None and the empty dict are both false
\* Variant of the test: `if mapping is not None`.
MappingApplies_NotNone(name) == DictHas(FIELD_MAPPING, name)

MappingApplies(name) ==
    /\ DictHas(FIELD_MAPPING, name)
    /\ Len(FieldMappingGet(name)) > 0

\* title_field = mapping.get('__title__'); "" stands for None (both false)
TitleField(mapping) ==
    IF DictHas(mapping, "__title__") THEN DictGet(mapping, "__title__") ELSE ""

\* Variant that sets Title whenever a title field is designated.
TitleProperties_Unchecked(mapping, original_properties) ==
    IF TitleField(mapping) # ""
    THEN << <<"Title",
              IF DictHas(original_properties, TitleField(mapping))
              THEN DictGet(original_properties, TitleField(mapping))
              ELSE "null">> >>
    ELSE << >>

\* new_properties after `if title_field and title_field in original_properties`
TitleProperties(mapping, original_properties) ==
    IF TitleField(mapping) # "" /\ DictHas(original_properties, TitleField(mapping))
    THEN << <<"Title", DictGet(original_properties, TitleField(mapping))>> >>
    ELSE << >>

\* the loop `for original_key, new_key in mapping.items()` from item i on
RECURSIVE RenameLoop(_, _, _, _)
RenameLoop(mapping, i, original_properties, new_properties) ==
    IF i > Len(mapping) THEN new_properties
    ELSE LET original_key == mapping[i][1]
             new_key == mapping[i][2]
         IN  IF original_key = "__title__"
             THEN RenameLoop(mapping, i + 1, original_properties, new_properties)
             ELSE IF DictHas(original_properties, original_key)
             THEN RenameLoop(mapping, i + 1, original_properties,
                      DictSet(new_properties, new_key,
                              DictGet(original_properties, original_key)))
             ELSE RenameLoop(mapping, i + 1, original_properties, new_properties)

\* Variant that renames in place instead of starting from an empty dict.
NewProperties_KeepOriginal(mapping, original_properties) ==
    RenameLoop(mapping, 1, original_properties, original_properties)

\* the body of `for feature in geodata_json['features']` for one feature
NewProperties(mapping, original_properties) ==
    RenameLoop(mapping, 1, original_properties,
               TitleProperties(mapping, original_properties))

\* Variant that fails closed: without a mapping every attribute is dropped.
ApplyFieldMapping_FailClosed(name, doc) ==
    [doc EXCEPT !.features = [i \in 1..Len(doc.features) |->
        [doc.features[i] EXCEPT
            !.properties = IF MappingApplies(name)
                           THEN NewProperties(FieldMappingGet(name), @)
                           ELSE << >>]]]

\* lines 156-185: geodata_json after the mapping/dropping rules
ApplyFieldMapping(name, doc) ==
    IF MappingApplies(name)
    THEN [doc EXCEPT !.features = [i \in 1..Len(doc.features) |->
             [doc.features[i] EXCEPT
                 !.properties = NewProperties(FieldMappingGet(name), @)]]]
    ELSE doc

\* ---------------------------------------------------------------- responses

NoResponse == [status |-> 0, body |-> None]
\* jsonify({"error": "Layer not found"}), 404
NotFoundResponse == [status |-> 404, body |-> Dumps([error |-> <<"Layer not found">>])]
\* Variant that puts the exception text into the message.
ErrorResponse_Leaky(name, e) ==
    [status |-> 500,
     body |-> Dumps([error |-> <<"Could not load data for layer: ", name, e>>])]

\* jsonify({"error": f"Could not load data for layer: {layer_name}"}), 500
\* e is the exception caught; the handler only prints it.
ErrorResponse(name, e) ==
    [status |-> 500,
     body |-> Dumps([error |-> <<"Could not load data for layer: ", name>>])]
\* app.response_class(response=text, status=200, mimetype='application/json')
OkResponse(text) == [status |-> 200, body |-> text]

\* ---------------------------------------------------------------- startup

DotTxt == <<".", "t", "x", "t">>

\* lines 90-113: one "<layer>.txt" note per registry entry, written at import
StartupNotes(registry) ==
    [f \in {registry[i][1] \o DotTxt : i \in 1..Len(registry)} |->
        [notes |-> DictGet(registry,
                           CHOOSE k \in DictKeys(registry) : k \o DotTxt = f)]]

\* directory contents the process may find when it starts
InitDisks ==
    {[f \in FileNames |-> IF f = FileA THEN a ELSE IF f = FileB THEN b ELSE Aux] :
        a \in {DsCounties, DsNoCrs, Corrupt}, b \in {DsDistricts, NoFile}}

NoDisk == [f \in FileNames |-> NoFile]

NoRequest == [layer |-> << >>, resp |-> NoResponse]

\* No request has been taken.
NoRequests ==
    /\ geodata_cache = << >>
    /\ pc = [w \in Workers |-> "idle"]
    /\ layer_name = [w \in Workers |-> << >>]
    /\ gdf = [w \in Workers |-> None]
    /\ geodata_json = [w \in Workers |-> None]
    /\ processed_json_string = [w \in Workers |-> None]
    /\ resp = [w \in Workers |-> NoResponse]
    /\ loads = [w \in Workers |-> 0]
    /\ cacheOps = [w \in Workers |-> 0]
    /\ stored = [w \in Workers |-> FALSE]
    /\ exc = [w \in Workers |-> ""]
    /\ prior = [w \in Workers |-> NoRequest]
    /\ layers_response = NoResponse
    /\ last = NoRequest
    /\ nRequests = 0
    /\ nFsChanges = 0

\* The state after import, before the first request.
Startup(registries) ==
    /\ isdir \in BOOLEAN
    /\ disk \in (IF isdir THEN InitDisks ELSE {NoDisk})
    /\ FIELD_MAPPING \in registries
    /\ cwd = StartupNotes(FIELD_MAPPING)
    /\ AVAILABLE_LAYERS \in {discover_shapefiles(isdir, listing) : listing \in Orders(ListDir)}
    /\ calls = 1
    /\ NoRequests

\* line 215: app.run(debug=True, host='0.0.0.0', port=5000) serves every request
\* in a thread of its own; FIELD_MAPPING is the table of lines 39-60.
Init ==
    /\ threaded = TRUE
    /\ Startup({RegistrySource})

\* The same application behind a server that handles one request at a time,
\* started with any of the registries.
InitSeq ==
    /\ threaded = FALSE
    /\ Startup(RegistryChoices)

\* The module before line 87 has run, over any contents of the directory:
\* discover_shapefiles has not been called and nothing has been written.
InitDiscover ==
    /\ threaded = FALSE
    /\ isdir \in BOOLEAN
    /\ disk \in (IF isdir THEN [DiscoveryFiles -> {Aux, NoFile}]
                         ELSE {[f \in DiscoveryFiles |-> NoFile]})
    /\ FIELD_MAPPING = RegistrySource
    /\ cwd = [f \in {} |-> None]
    /\ AVAILABLE_LAYERS = << >>
    /\ calls = 0
    /\ NoRequests

\* line 87: AVAILABLE_LAYERS = discover_shapefiles(SHAPEFILE_FOLDER), with
\* `listing` the result of os.listdir
Discover(listing) ==
    /\ calls < MaxDiscoverCalls
    /\ calls' = calls + 1
    /\ AVAILABLE_LAYERS' = discover_shapefiles(isdir, listing)
    /\ UNCHANGED <<threaded, isdir, disk, cwd, FIELD_MAPPING, geodata_cache,
                   workerVars, layers_response, last, nRequests, nFsChanges>>

\* ---------------------------------------------------------------- get_geodata

envVars == <<threaded, isdir, disk, FIELD_MAPPING, AVAILABLE_LAYERS, calls,
            layers_response, nFsChanges>>
locals == <<gdf, geodata_json, processed_json_string>>

InFlight(w) == pc[w] \notin {"idle", "done"}

\* the handler returns `response`
Return(w, response) ==
    /\ pc' = [pc EXCEPT ![w] = "done"]
    /\ resp' = [resp EXCEPT ![w] = response]
    /\ last' = IF threaded THEN last ELSE [layer |-> layer_name[w], resp |-> response]
    /\ gdf' = [gdf EXCEPT ![w] = None]
    /\ geodata_json' = [geodata_json EXCEPT ![w] = None]
    /\ processed_json_string' = [processed_json_string EXCEPT ![w] = None]

\* the handler's except clause (lines 208-211) catches e
Except(w, e) ==
    /\ exc' = [exc EXCEPT ![w] = e]
    /\ Return(w, ErrorResponse(layer_name[w], e))

\* A worker thread takes the request GET /api/data/<name> and enters the
\* handler; lines 134-135: if layer_name not in AVAILABLE_LAYERS: return ..., 404
Receive(w, name) ==
    /\ pc[w] \in {"idle", "done"}
    /\ threaded \/ \A v \in Workers : ~InFlight(v)
    /\ nRequests < MaxRequests
    /\ nRequests' = nRequests + 1
    /\ layer_name' = [layer_name EXCEPT ![w] = name]
    /\ loads' = [loads EXCEPT ![w] = 0]
    /\ cacheOps' = [cacheOps EXCEPT ![w] = 0]
    /\ stored' = [stored EXCEPT ![w] = FALSE]
    /\ exc' = [exc EXCEPT ![w] = ""]
    /\ prior' = [prior EXCEPT ![w] = last]
    /\ IF InAvailableLayers(name)
       THEN /\ pc' = [pc EXCEPT ![w] = "lookup"]
            /\ resp' = [resp EXCEPT ![w] = NoResponse]
            /\ UNCHANGED <<last, locals>>
       ELSE /\ pc' = [pc EXCEPT ![w] = "done"]
            /\ resp' = [resp EXCEPT ![w] = NotFoundResponse]
            /\ last' = IF threaded THEN last ELSE [layer |-> name, resp |-> NotFoundResponse]
            /\ UNCHANGED locals
    /\ UNCHANGED <<envVars, cwd, geodata_cache>>

\* Variant whose membership test never finds the key.
CacheLookup_NeverHit(w) ==
    /\ pc[w] = "lookup"
    /\ cacheOps' = [cacheOps EXCEPT ![w] = @ + 1]
    /\ pc' = [pc EXCEPT ![w] = "read"]
    /\ UNCHANGED <<envVars, cwd, geodata_cache, layer_name, locals, resp, loads,
                   stored, exc, prior, last, nRequests>>

\* Variant under a lock that a thread holds from its read to its store.
CacheLookup_Locked(w) ==
    /\ pc[w] = "lookup"
    /\ \A v \in Workers \ {w} : pc[v] \notin {"read", "transform", "store"}
    /\ cacheOps' = [cacheOps EXCEPT ![w] = @ + 1]
    /\ pc' = [pc EXCEPT ![w] =
                 IF DictHas(geodata_cache, layer_name[w]) THEN "hit" ELSE "read"]
    /\ UNCHANGED <<envVars, cwd, geodata_cache, layer_name, locals, resp, loads,
                   stored, exc, prior, last, nRequests>>

\* line 138: if layer_name in geodata_cache
CacheLookup(w) ==
    /\ pc[w] = "lookup"
    /\ cacheOps' = [cacheOps EXCEPT ![w] = @ + 1]
    /\ pc' = [pc EXCEPT ![w] =
                 IF DictHas(geodata_cache, layer_name[w]) THEN "hit" ELSE "read"]
    /\ UNCHANGED <<envVars, cwd, geodata_cache, layer_name, locals, resp, loads,
                   stored, exc, prior, last, nRequests>>

\* Variant that writes the layer's file again on every hit.
CacheHit_Resave(w) ==
    /\ pc[w] = "hit"
    /\ cacheOps' = [cacheOps EXCEPT ![w] = @ + 1]
    /\ cwd' = [f \in DOMAIN cwd \cup {layer_name[w]} |->
                  IF f = layer_name[w] THEN DictGet(geodata_cache, layer_name[w])
                  ELSE cwd[f]]
    /\ Return(w, OkResponse(DictGet(geodata_cache, layer_name[w])))
    /\ UNCHANGED <<envVars, geodata_cache, layer_name, loads,
                   stored, exc, prior, nRequests>>

\* lines 139-143: return the cached string
CacheHit(w) ==
    /\ pc[w] = "hit"
    /\ cacheOps' = [cacheOps EXCEPT ![w] = @ + 1]
    /\ Return(w, OkResponse(DictGet(geodata_cache, layer_name[w])))
    /\ UNCHANGED <<envVars, cwd, geodata_cache, layer_name, loads,
                   stored, exc, prior, nRequests>>

\* Variant that remembers a failed read in the cache.
ReadFile_NegativeCache(w) ==
    /\ pc[w] = "read"
    /\ loads' = [loads EXCEPT ![w] = @ + 1]
    /\ IF Readable(ShapefilePath(layer_name[w]))
       THEN /\ gdf' = [gdf EXCEPT ![w] = read_file(ShapefilePath(layer_name[w]))]
            /\ pc' = [pc EXCEPT ![w] = "transform"]
            /\ UNCHANGED <<resp, last, exc, geodata_json, processed_json_string,
                           geodata_cache>>
       ELSE /\ Except(w, "ReadFailure")
            /\ geodata_cache' = DictSet(geodata_cache, layer_name[w],
                                         ErrorResponse(layer_name[w], "").body)
    /\ UNCHANGED <<envVars, cwd, layer_name, cacheOps, stored, prior, nRequests>>

\* lines 146-149: gdf = gpd.read_file(shapefile_path, encoding='utf-8')
ReadFile(w) ==
    /\ pc[w] = "read"
    /\ loads' = [loads EXCEPT ![w] = @ + 1]
    /\ IF Readable(ShapefilePath(layer_name[w]))
       THEN /\ gdf' = [gdf EXCEPT ![w] = read_file(ShapefilePath(layer_name[w]))]
            /\ pc' = [pc EXCEPT ![w] = "transform"]
            /\ UNCHANGED <<resp, last, exc, geodata_json, processed_json_string>>
       ELSE Except(w, "ReadFailure")
    /\ UNCHANGED <<envVars, cwd, geodata_cache, layer_name, cacheOps, stored,
                   prior, nRequests>>

\* Variant that caches the freshly read dataset before reprojecting it.
TransformLayer_StoreFirst(w) ==
    /\ pc[w] = "transform"
    /\ geodata_cache' = DictSet(geodata_cache, layer_name[w], to_json(gdf[w]))
    /\ stored' = [stored EXCEPT ![w] = TRUE]
    /\ cacheOps' = [cacheOps EXCEPT ![w] = @ + 1]
    /\ IF CanReproject(gdf[w])
       THEN /\ gdf' = [gdf EXCEPT ![w] = to_crs(gdf[w])]
            /\ geodata_json' = [geodata_json EXCEPT ![w] =
                   ApplyFieldMapping(layer_name[w], Loads(to_json(to_crs(gdf[w]))))]
            /\ pc' = [pc EXCEPT ![w] = "store"]
            /\ UNCHANGED <<resp, last, exc, processed_json_string>>
       ELSE Except(w, "ReprojectFailure")
    /\ UNCHANGED <<envVars, cwd, layer_name, loads, prior, nRequests>>

\* line 152: gdf = gdf.to_crs(epsg=4326), then lines 156-185 on the thread's
\* own data: to_json, json.loads and the mapping/dropping rules
TransformLayer(w) ==
    /\ pc[w] = "transform"
    /\ IF CanReproject(gdf[w])
       THEN /\ gdf' = [gdf EXCEPT ![w] = to_crs(gdf[w])]
            /\ geodata_json' = [geodata_json EXCEPT ![w] =
                   ApplyFieldMapping(layer_name[w], Loads(to_json(to_crs(gdf[w]))))]
            /\ pc' = [pc EXCEPT ![w] = "store"]
            /\ UNCHANGED <<resp, last, exc, processed_json_string>>
       ELSE Except(w, "ReprojectFailure")
    /\ UNCHANGED <<envVars, cwd, geodata_cache, layer_name, loads, cacheOps,
                   stored, prior, nRequests>>

\* Variant that caches geojson_str, the string of line 159, instead of the
\* processed one.
CacheStore_Unmapped(w) ==
    /\ pc[w] = "store"
    /\ processed_json_string' =
           [processed_json_string EXCEPT ![w] = Dumps(geodata_json[w])]
    /\ geodata_cache' = DictSet(geodata_cache, layer_name[w], to_json(gdf[w]))
    /\ cacheOps' = [cacheOps EXCEPT ![w] = @ + 1]
    /\ stored' = [stored EXCEPT ![w] = TRUE]
    /\ pc' = [pc EXCEPT ![w] = "save"]
    /\ UNCHANGED <<envVars, cwd, layer_name, gdf, geodata_json, resp, loads,
                   exc, prior, last, nRequests>>

\* lines 189-190: processed_json_string = json.dumps(geodata_json);
\* geodata_cache[layer_name] = processed_json_string
CacheStore(w) ==
    /\ pc[w] = "store"
    /\ processed_json_string' =
           [processed_json_string EXCEPT ![w] = Dumps(geodata_json[w])]
    /\ geodata_cache' =
           DictSet(geodata_cache, layer_name[w], Dumps(geodata_json[w]))
    /\ cacheOps' = [cacheOps EXCEPT ![w] = @ + 1]
    /\ stored' = [stored EXCEPT ![w] = TRUE]
    /\ pc' = [pc EXCEPT ![w] = "save"]
    /\ UNCHANGED <<envVars, cwd, layer_name, gdf, geodata_json, resp, loads,
                   exc, prior, last, nRequests>>

\* lines 193-199: write the string to the file named layer_name in the
\* working directory; an IOError is printed and swallowed.  The open may
\* fail (file untouched) or the write may fail after the open truncated it.
WriteFile(files, name, outcome, text) ==
    IF outcome = "open_failed" THEN files
    ELSE [f \in DOMAIN files \cup {name} |->
             IF f = name
             THEN (IF outcome = "ok" THEN text ELSE [json |-> None])
             ELSE files[f]]

\* Variant without the inner except clause: the IOError reaches the
\* handler's except clause.
SaveFile_Raises(w) ==
    /\ pc[w] = "save"
    /\ \E outcome \in {"ok", "open_failed", "write_failed"} :
           /\ cwd' = WriteFile(cwd, layer_name[w], outcome, processed_json_string[w])
           /\ IF outcome = "ok"
              THEN /\ pc' = [pc EXCEPT ![w] = "respond"]
                   /\ UNCHANGED <<locals, resp, exc, last>>
              ELSE Except(w, "IOError")
    /\ UNCHANGED <<envVars, geodata_cache, layer_name, loads,
                   cacheOps, stored, prior, nRequests>>

SaveFile(w) ==
    /\ pc[w] = "save"
    /\ \E outcome \in {"ok", "open_failed", "write_failed"} :
           cwd' = WriteFile(cwd, layer_name[w], outcome, processed_json_string[w])
    /\ pc' = [pc EXCEPT ![w] = "respond"]
    /\ UNCHANGED <<envVars, geodata_cache, layer_name, locals, resp, loads,
                   cacheOps, stored, exc, prior, last, nRequests>>

\* lines 201-206: return the string just built
Respond(w) ==
    /\ pc[w] = "respond"
    /\ Return(w, OkResponse(processed_json_string[w]))
    /\ UNCHANGED <<envVars, cwd, geodata_cache, layer_name, loads,
                   cacheOps, stored, exc, prior, nRequests>>

\* ---------------------------------------------------------------- get_layers

\* Variant that scans the directory again on every request.
GetLayers_Rescan ==
    /\ threaded \/ \A v \in Workers : ~InFlight(v)
    /\ nRequests < MaxRequests
    /\ nRequests' = nRequests + 1
    /\ \E listing \in Orders(ListDir) :
           AVAILABLE_LAYERS' = discover_shapefiles(isdir, listing)
    /\ calls' = calls + 1
    /\ layers_response' = OkResponse(Dumps(AVAILABLE_LAYERS'))
    /\ UNCHANGED <<threaded, isdir, disk, cwd, FIELD_MAPPING, geodata_cache,
                   workerVars, last, nFsChanges>>

\* lines 122-125: GET /api/layers returns jsonify(AVAILABLE_LAYERS)
GetLayers ==
    /\ threaded \/ \A v \in Workers : ~InFlight(v)
    /\ nRequests < MaxRequests
    /\ nRequests' = nRequests + 1
    /\ layers_response' = OkResponse(Dumps(AVAILABLE_LAYERS))
    /\ UNCHANGED <<threaded, isdir, disk, cwd, FIELD_MAPPING, AVAILABLE_LAYERS, calls,
                   geodata_cache, workerVars, last, nFsChanges>>

\* ---------------------------------------------------------------- environment

\* Somebody replaces, adds or removes a shapefile in the data directory.
ChangedContents == {DsDistricts, Corrupt, NoFile}

FsChange(f, content) ==
    /\ nFsChanges < MaxFsChanges
    /\ disk[f] # content
    /\ disk' = [disk EXCEPT ![f] = content]
    /\ isdir' = (isdir \/ content # NoFile)
    /\ nFsChanges' = nFsChanges + 1
    /\ UNCHANGED <<threaded, cwd, FIELD_MAPPING, AVAILABLE_LAYERS, calls,
                   geodata_cache, workerVars, layers_response, last, nRequests>>

\* ---------------------------------------------------------------- specification

Step(w) ==
    \/ CacheLookup(w)
    \/ CacheHit(w)
    \/ ReadFile(w)
    \/ TransformLayer(w)
    \/ CacheStore(w)
    \/ SaveFile(w)
    \/ Respond(w)

Next ==
    \/ \E w \in Workers, name \in RequestNames : Receive(w, name)
    \/ \E w \in Workers : Step(w)
    \/ GetLayers
    \/ \E f \in ShpFiles, content \in ChangedContents : FsChange(f, content)

\* The server as started by app.run: requests are served by concurrent threads.
Spec == Init /\ [][Next]_vars

\* The server handling its requests one after the other.
SpecSeq == InitSeq /\ [][Next]_vars

\* discover_shapefiles called, and called again, on a directory that stays
\* as it is.
NextDiscover == \E listing \in Orders(ListDir) : Discover(listing)

SpecDiscover == InitDiscover /\ [][NextDiscover]_vars

\* ================================================================ claims

\* The layer set discovered at startup.
Discovered == {AVAILABLE_LAYERS[i] : i \in 1..Len(AVAILABLE_LAYERS)}

\* A worker holds a Python value (not None) in the local `locals_[w]`.
Holds(local, w) == local[w] # None

\* C1: a request for a name outside the discovered layer set (path-traversal
\* look-alikes included) is over as soon as it is taken: its response is
\* 404 {"error": "Layer not found"}, and it has made no call of read_file, no
\* access to geodata_cache and no store.
C1_AllowList ==
    \A w \in Workers :
        (pc[w] # "idle" /\ layer_name[w] \notin Discovered) =>
            /\ pc[w] = "done"
            /\ resp[w] = NotFoundResponse
            /\ loads[w] = 0
            /\ cacheOps[w] = 0
            /\ ~stored[w]
            /\ ~Holds(gdf, w)

C1_Witness ==
    \E w \in Workers :
        /\ pc[w] = "done"
        /\ layer_name[w] = Traversal
        /\ resp[w].status = 404

\* C2: of the requests for one layer that are being handled at the same time,
\* at most one has called read_file (one underlying load), and the payloads
\* they are about to return are equal.
C2_SingleLoad ==
    \A w, v \in Workers :
        (w # v /\ InFlight(w) /\ InFlight(v) /\ layer_name[w] = layer_name[v]) =>
            /\ ~(loads[w] >= 1 /\ loads[v] >= 1)
            /\ (Holds(processed_json_string, w) /\ Holds(processed_json_string, v)) =>
                   processed_json_string[w] = processed_json_string[v]

\* C3: a request for the layer of the request that completed just before it
\* began, when that one returned 200, is a cache hit: it never calls
\* read_file, stores nothing, and returns the very same response (whether or
\* not the data directory changed in between).
C3_CacheIdempotence ==
    \A w \in Workers :
        (/\ pc[w] # "idle"
         /\ prior[w].layer = layer_name[w]
         /\ prior[w].resp.status = 200) =>
            /\ pc[w] \in {"lookup", "hit", "done"}
            /\ loads[w] = 0
            /\ ~stored[w]
            /\ pc[w] = "done" => resp[w] = prior[w].resp

C3_Witness ==
    \E w \in Workers :
        /\ pc[w] = "done"
        /\ prior[w].layer = layer_name[w]
        /\ prior[w].resp.status = 200
        /\ resp[w].status = 200
        /\ cacheOps[w] = 2

\* C4: an entry of geodata_cache, once there, is never removed and never
\* replaced by a different value.
C4_StableEntry ==
    [][\A n \in RequestNames :
          DictHas(geodata_cache, n) =>
              /\ DictHas(geodata_cache', n)
              /\ DictGet(geodata_cache', n) = DictGet(geodata_cache, n)]_vars

\* C5: a request that ended with the 500 response has assigned nothing to
\* geodata_cache: its only access to the cache was the failed lookup.
C5_NoStoreOnFailure ==
    \A w \in Workers :
        (pc[w] = "done" /\ resp[w].status = 500) =>
            /\ ~stored[w]
            /\ cacheOps[w] = 1

C5_Witness ==
    \E w \in Workers :
        /\ pc[w] = "done"
        /\ resp[w].status = 500
        /\ exc[w] = "ReprojectFailure"
        /\ ~DictHas(geodata_cache, layer_name[w])

\* The payloads the pipeline can produce for a layer: the mapped feature
\* collection of some dataset that can be reprojected.
ExpectedPayloads(name) ==
    {Dumps(ApplyFieldMapping(name, Loads(to_json(to_crs(ds))))) :
        ds \in {d \in Datasets : CanReproject(d)}}

\* C6: a finished request has exactly one of three outcomes: 404 "Layer not
\* found" exactly when the name is not discovered; else 200 with a mapped
\* feature collection when the layer was cached or the pipeline ran through;
\* else, whatever was raised, 500 with the message built from the layer name
\* alone.
C6_Outcomes ==
    \A w \in Workers :
        pc[w] = "done" =>
            \/ /\ layer_name[w] \notin Discovered
               /\ resp[w] = NotFoundResponse
            \/ /\ layer_name[w] \in Discovered
               /\ exc[w] = ""
               /\ resp[w].status = 200
               /\ resp[w].body \in ExpectedPayloads(layer_name[w])
               /\ loads[w] = 0 \/ (loads[w] = 1 /\ stored[w])
            \/ /\ layer_name[w] \in Discovered
               /\ exc[w] \in {"ReadFailure", "ReprojectFailure"}
               /\ resp[w] =
                    [status |-> 500,
                     body |-> Dumps([error |->
                        <<"Could not load data for layer: ", layer_name[w]>>])]

C6_Witness ==
    \E w, v \in Workers :
        /\ pc[w] = "done" /\ resp[w].status = 500 /\ exc[w] = "ReadFailure"
        /\ pc[v] = "done" /\ resp[v].status = 200

\* C7: a request calls read_file at most once; while nothing is in flight
\* after a failed request its layer is uncached; and the request that follows
\* a failed request for the same layer goes through the pipeline again: it is
\* no cache hit, and when it returns 200 it is the one that stored the entry.
C7_RetryOnNextRequest ==
    /\ \A w \in Workers : loads[w] <= 1
    /\ ((\A v \in Workers : ~InFlight(v)) /\ last.resp.status = 500) =>
           ~DictHas(geodata_cache, last.layer)
    /\ \A w \in Workers :
        (/\ pc[w] # "idle"
         /\ prior[w].layer = layer_name[w]
         /\ prior[w].resp.status = 500) =>
            /\ pc[w] # "hit"
            /\ pc[w] = "done" =>
                /\ loads[w] = 1
                /\ resp[w].status = 200 =>
                    /\ stored[w]
                    /\ DictGet(geodata_cache, layer_name[w]) = resp[w].body

C7_Witness ==
    \E w \in Workers :
        /\ pc[w] = "done"
        /\ prior[w].layer = layer_name[w]
        /\ prior[w].resp.status = 500
        /\ resp[w].status = 200
        /\ stored[w]

\* ---------------------------------------------------------------- field mapping

\* The worker has built its document: geodata_json[w] is the mapped document
\* of the reprojected dataset gdf[w].
Mapped(w) == pc[w] \in {"store", "save", "respond"}

\* The original attributes of feature i of the dataset the worker read.
OriginalProperties(w, i) ==
    [j \in 1..Len(gdf[w].columns) |-> <<gdf[w].columns[j], gdf[w].rows[i].values[j]>>]

OutputProperties(w, i) == geodata_json[w].features[i].properties

Features(w) == 1..Len(gdf[w].rows)

\* The policy of a layer that has a registry entry.
Policy(name) == DictGet(FIELD_MAPPING, name)

\* The (originalKey, displayKey) pairs of a policy, by position, and those
\* whose originalKey a feature has.
RenamePairs(policy) == {j \in 1..Len(policy) : policy[j][1] # "__title__"}
PresentPairs(policy, orig) ==
    {j \in RenamePairs(policy) : DictHas(orig, policy[j][1])}
TitleApplies(policy, orig) ==
    /\ DictHas(policy, "__title__")
    /\ DictHas(orig, DictGet(policy, "__title__"))

\* out is exactly the record of the policy's pairs present in orig, plus
\* Title when a title field applies (of pairs with one displayKey the last
\* one gives the value).
ExactlyMapped(policy, orig, out) ==
    /\ Cardinality(DictKeys(out)) = Len(out)
    /\ DictKeys(out) =
          {policy[j][2] : j \in PresentPairs(policy, orig)}
              \cup (IF TitleApplies(policy, orig) THEN {"Title"} ELSE {})
    /\ \A j \in PresentPairs(policy, orig) :
          (\A k \in PresentPairs(policy, orig) :
               k > j => policy[k][2] # policy[j][2]) =>
              DictGet(out, policy[j][2]) = DictGet(orig, policy[j][1])
    /\ (/\ TitleApplies(policy, orig)
        /\ \A j \in PresentPairs(policy, orig) : policy[j][2] # "Title") =>
           DictGet(out, "Title") = DictGet(orig, DictGet(policy, "__title__"))

\* C8 as stated: for a layer with a registry entry, every output feature's
\* properties are exactly the policy's present pairs (plus Title): attributes
\* the policy does not name are absent, pairs the feature lacks are omitted.
C8_Original ==
    \A w \in Workers :
        (Mapped(w) /\ DictHas(FIELD_MAPPING, layer_name[w])) =>
            /\ Len(geodata_json[w].features) = Len(gdf[w].rows)
            /\ \A i \in Features(w) :
                  ExactlyMapped(Policy(layer_name[w]),
                                OriginalProperties(w, i), OutputProperties(w, i))

\* C8 as amended: the same for a layer whose registry entry is not empty;
\* under an empty entry every feature keeps its original attributes.
C8_MappedExactly ==
    \A w \in Workers :
        (Mapped(w) /\ DictHas(FIELD_MAPPING, layer_name[w])) =>
            /\ Len(geodata_json[w].features) = Len(gdf[w].rows)
            /\ \A i \in Features(w) :
                  IF Len(Policy(layer_name[w])) > 0
                  THEN ExactlyMapped(Policy(layer_name[w]),
                                     OriginalProperties(w, i), OutputProperties(w, i))
                  ELSE OutputProperties(w, i) = OriginalProperties(w, i)

\* A feature with name, district and other under the policy name -> County
\* Name, county_sea -> County Seat: one pair kept, one omitted, two
\* attributes dropped, and the request is about to return.
C8_Witness ==
    \E w \in Workers :
        /\ pc[w] = "respond"
        /\ FIELD_MAPPING = RegistrySource
        /\ layer_name[w] = LayerA
        /\ DictKeys(OriginalProperties(w, 1)) = {"name", "district", "other"}
        /\ OutputProperties(w, 1) = << <<"County Name", "Franklin">> >>

\* C9: under a policy that designates a title field, a feature that has the
\* field gets Title with its value as the first output attribute; a feature
\* that lacks it gets no Title; "__title__" is no rename pair: neither it nor
\* the field it names becomes an output key unless a rename pair says so.
C9_TitleInjection ==
    \A w \in Workers :
        (/\ Mapped(w)
         /\ DictHas(FIELD_MAPPING, layer_name[w])
         /\ DictHas(Policy(layer_name[w]), "__title__")) =>
            \A i \in Features(w) :
                LET policy == Policy(layer_name[w])
                    title == DictGet(policy, "__title__")
                    orig == OriginalProperties(w, i)
                    out == OutputProperties(w, i)
                IN  /\ DictHas(orig, title) =>
                          /\ Len(out) >= 1
                          /\ out[1] = <<"Title", DictGet(orig, title)>>
                    /\ ~DictHas(orig, title) => ~DictHas(out, "Title")
                    /\ ~DictHas(out, "__title__")
                    /\ DictHas(out, title) =>
                          \E j \in RenamePairs(policy) : policy[j][2] = title

\* The designator comes last in the policy and Title comes first in the output.
C9_Witness ==
    \E w \in Workers :
        /\ pc[w] = "respond"
        /\ layer_name[w] = LayerA
        /\ Policy(LayerA) = << <<"name", "County Name">>, <<"__title__", "name">> >>
        /\ OutputProperties(w, 1) =
              << <<"Title", "Franklin">>, <<"County Name", "Franklin">> >>

\* C10: a discovered layer without registry entry keeps every feature's
\* attributes as they are and, unless the read or the reprojection fails, is
\* answered 200 with the unmapped feature collection of its dataset.
C10_PassThrough ==
    \A w \in Workers :
        ~DictHas(FIELD_MAPPING, layer_name[w]) =>
            /\ Mapped(w) =>
                  /\ Len(geodata_json[w].features) = Len(gdf[w].rows)
                  /\ \A i \in Features(w) :
                        OutputProperties(w, i) = OriginalProperties(w, i)
            /\ pc[w] = "respond" => processed_json_string[w] = to_json(gdf[w])
            /\ (pc[w] = "done" /\ layer_name[w] \in Discovered /\ exc[w] = "") =>
                  /\ resp[w].status = 200
                  /\ resp[w].body \in
                        {to_json(to_crs(d)) : d \in {x \in Datasets : CanReproject(x)}}

C10_Witness ==
    \E w \in Workers :
        /\ pc[w] = "done"
        /\ layer_name[w] = LayerB
        /\ ~DictHas(FIELD_MAPPING, LayerB)
        /\ loads[w] = 1
        /\ resp[w] = OkResponse(to_json(to_crs(DsDistricts)))

\* The name of a directory entry without its last four characters (".shp").
Stripped(filename) == SubSeq(filename, 1, Len(filename) - Len(DotShp))

\* C11: every call of discover_shapefiles returns a strictly ascending
\* sequence (sorted, no duplicates) whose elements are exactly the names,
\* with the extension stripped, of the entries that end with .shp; and a
\* repeated call on the same directory contents returns the same sequence.
C11_Discovery ==
    [][calls' # calls =>
          LET result == AVAILABLE_LAYERS'
          IN  /\ \A i, j \in 1..Len(result) : i < j => StrLess(result[i], result[j])
              /\ {result[i] : i \in 1..Len(result)} =
                     {Stripped(f) : f \in {g \in ListDir : EndsWith(g, DotShp)}}
              /\ calls >= 1 => result = AVAILABLE_LAYERS]_vars

\* C12: when the data directory does not exist, discovery gives the empty
\* list, and a service whose layer list is empty answers every get_geodata
\* request at once with 404 and never reads a file.
C12_MissingDirectory ==
    /\ ~isdir => AVAILABLE_LAYERS = << >>
    /\ AVAILABLE_LAYERS = << >> =>
           \A w \in Workers :
               /\ pc[w] \in {"idle", "done"}
               /\ pc[w] = "done" => resp[w] = NotFoundResponse /\ loads[w] = 0

C12_Witness ==
    /\ ~isdir
    /\ \E w \in Workers :
           pc[w] = "done" /\ layer_name[w] = LayerA /\ resp[w].status = 404

\* The layers whose shapefile is in the data directory now.
LayersOnDisk == {n \in {LayerA, LayerB} : disk[ShapefilePath(n)] # NoFile}

\* C13: the layer list is computed once, at startup: as long as the directory
\* is as it was at startup the list is the ascending list of the layers on
\* disk; no step modifies it or calls discover_shapefiles again, whatever
\* requests are served and however the directory changes; and every
\* response of get_layers is 200 with that list.
C13_LayersFrozen ==
    /\ [](nFsChanges = 0 =>
             /\ Discovered = (IF isdir THEN LayersOnDisk ELSE {})
             /\ \A i, j \in 1..Len(AVAILABLE_LAYERS) :
                    i < j => StrLess(AVAILABLE_LAYERS[i], AVAILABLE_LAYERS[j]))
    /\ [][/\ AVAILABLE_LAYERS' = AVAILABLE_LAYERS
          /\ calls' = calls
          /\ layers_response' # layers_response =>
                 layers_response' = [status |-> 200, body |-> [json |-> AVAILABLE_LAYERS]]]_vars

\* get_layers has answered after the directory changed: the list it returned
\* names a layer whose file is gone, or lacks one whose file is there.
C13_Witness ==
    /\ layers_response.status = 200
    /\ nFsChanges > 0
    /\ Discovered # LayersOnDisk

\* The keys a policy can give an output feature: its display keys and Title.
OutputKeys(policy) == {policy[j][2] : j \in RenamePairs(policy)} \cup {"Title"}

\* C14 as stated: a feature keeps all its original attributes only when the
\* layer has no registry entry; under every entry, whatever it contains, the
\* output has no attribute besides those the policy names.
C14_Original ==
    \A w \in Workers :
        Mapped(w) =>
            \A i \in Features(w) :
                /\ DictHas(FIELD_MAPPING, layer_name[w]) =>
                       DictKeys(OutputProperties(w, i)) \subseteq OutputKeys(Policy(layer_name[w]))
                /\ OutputProperties(w, i) = OriginalProperties(w, i) =>
                       ~DictHas(FIELD_MAPPING, layer_name[w])

\* C14 as amended: a feature keeps all its original attributes exactly when
\* the layer has no registry entry or an empty one; under every entry that is
\* not empty (one that holds nothing but the title designator included) the
\* output has no attribute besides those the policy names.
C14_DropUnnamed ==
    \A w \in Workers :
        Mapped(w) =>
            \A i \in Features(w) :
                IF DictHas(FIELD_MAPPING, layer_name[w]) /\ Len(Policy(layer_name[w])) > 0
                THEN /\ DictKeys(OutputProperties(w, i)) \subseteq OutputKeys(Policy(layer_name[w]))
                     /\ OutputProperties(w, i) # OriginalProperties(w, i)
                ELSE OutputProperties(w, i) = OriginalProperties(w, i)

\* An entry without rename pairs: the title designator alone.  The feature
\* had three attributes and is left with Title.
C14_Witness ==
    \E w \in Workers :
        /\ pc[w] = "respond"
        /\ layer_name[w] = LayerA
        /\ Policy(LayerA) = << <<"__title__", "name">> >>
        /\ Len(OriginalProperties(w, 1)) = 3
        /\ OutputProperties(w, 1) = << <<"Title", "Franklin">> >>

\* C15: in every reachable state every value held in geodata_cache, and
\* every 200 body, is a complete payload of the layer it stands for: the
\* serialized, reprojected and mapped feature collection of one dataset,
\* also while another thread is loading the same layer.
C15_NoTornPayload ==
    [](/\ \A n \in DictKeys(geodata_cache) :
             DictGet(geodata_cache, n) \in ExpectedPayloads(n)
       /\ \A w \in Workers :
             (pc[w] = "done" /\ resp[w].status = 200) =>
                 resp[w].body \in ExpectedPayloads(layer_name[w]))

\* A thread has its 200 for a layer while another one is still loading it.
C15_Witness ==
    \E w, v \in Workers :
        /\ w # v
        /\ layer_name[w] = LayerA /\ layer_name[v] = LayerA
        /\ pc[w] = "done" /\ resp[w].status = 200
        /\ pc[v] \in {"read", "transform", "store"}
        /\ DictHas(geodata_cache, LayerA)

\* C16: no request waits for another one: in every reachable state, whatever
\* the other threads are doing, a thread inside the handler can take its
\* next step, and a free thread can take a request for any name.
C16_Independent ==
    [](\A w \in Workers :
          /\ InFlight(w) => ENABLED Step(w)
          /\ (~InFlight(w) /\ nRequests < MaxRequests) =>
                 \A name \in RequestNames : ENABLED Receive(w, name))

\* A request for one layer has run through its load while the load of
\* another layer is in progress.
C16_Witness ==
    \E w, v \in Workers :
        /\ layer_name[w] = LayerA /\ layer_name[v] = LayerB
        /\ pc[v] = "read"
        /\ pc[w] = "respond"

\* C17: geodata_cache is empty at startup; its keys are discovered layers;
\* and a key appears only in the store step of a thread that has read,
\* reprojected and mapped that layer without an exception.
C17_CacheKeys ==
    /\ geodata_cache = << >>
    /\ [](DictKeys(geodata_cache) \subseteq Discovered)
    /\ [][\A n \in DictKeys(geodata_cache') \ DictKeys(geodata_cache) :
              \E w \in Workers :
                  /\ layer_name[w] = n
                  /\ pc[w] = "store"
                  /\ loads[w] = 1
                  /\ exc[w] = ""
                  /\ Dumps(geodata_json[w]) \in ExpectedPayloads(n)]_vars

C17_Witness ==
    /\ DictKeys(geodata_cache) = {LayerA, LayerB}
    /\ \E w \in Workers : stored[w] /\ layer_name[w] = LayerB

\* C18: taking a request (a 404 included), the lookup and the hit change
\* neither geodata_cache nor the files written; a request that ended as 404
\* or as a hit has stored nothing; geodata_cache changes only in the store
\* step of a thread whose pipeline ran through, and then only at that
\* thread's layer; files are written only by a thread that has stored.
C18_FrameEffect ==
    /\ [](\A w \in Workers :
             (pc[w] = "done" /\ (resp[w].status = 404 \/ loads[w] = 0)) => ~stored[w])
    /\ [][/\ (\/ nRequests' # nRequests
              \/ \E w \in Workers : pc[w] \in {"lookup", "hit"} /\ pc'[w] # pc[w]) =>
                 (geodata_cache' = geodata_cache /\ cwd' = cwd)
          /\ geodata_cache' # geodata_cache =>
                 \E w \in Workers :
                     /\ pc[w] = "store" /\ pc'[w] = "save"
                     /\ loads[w] = 1 /\ exc[w] = ""
                     /\ DictKeys(geodata_cache') =
                            DictKeys(geodata_cache) \cup {layer_name[w]}
                     /\ \A n \in DictKeys(geodata_cache) \ {layer_name[w]} :
                            DictGet(geodata_cache', n) = DictGet(geodata_cache, n)
          /\ cwd' # cwd =>
                 \E w \in Workers : pc[w] = "save" /\ stored[w]]_vars

\* A request was served from the cache: a lookup, a hit and no load.
C18_Witness ==
    \E w \in Workers :
        /\ pc[w] = "done" /\ resp[w].status = 200
        /\ loads[w] = 0 /\ cacheOps[w] = 2
        /\ DictHas(geodata_cache, layer_name[w])

\* C19: the file named after the layer is written after the entry has been
\* stored: the step after the store leaves the file untouched (open failed),
\* or holding the payload, or truncated (write failed), changes nothing else
\* on disk and nothing in geodata_cache, and in every case the request goes
\* on to return 200 with its payload, the entry staying in place.
C19_SaveAfterStore ==
    /\ [](\A w \in Workers :
             /\ pc[w] \in {"save", "respond"} =>
                    /\ stored[w]
                    /\ DictHas(geodata_cache, layer_name[w])
             /\ (pc[w] = "done" /\ stored[w]) =>
                    /\ resp[w].status = 200
                    /\ DictHas(geodata_cache, layer_name[w]))
    /\ [][\A w \in Workers :
             /\ (stored'[w] /\ ~stored[w]) => pc'[w] = "save"
             /\ (pc[w] = "save" /\ pc'[w] # "save") =>
                    /\ pc'[w] = "respond"
                    /\ geodata_cache' = geodata_cache
                    /\ processed_json_string'[w] = processed_json_string[w]
                    /\ \/ cwd' = cwd
                       \/ /\ DOMAIN cwd' = DOMAIN cwd \cup {layer_name[w]}
                          /\ \A f \in DOMAIN cwd \ {layer_name[w]} : cwd'[f] = cwd[f]
                          /\ cwd'[layer_name[w]] \in
                                 {processed_json_string[w], [json |-> None]}
             /\ (pc[w] = "respond" /\ pc'[w] # "respond") =>
                    /\ pc'[w] = "done"
                    /\ resp'[w] = [status |-> 200, body |-> processed_json_string[w]]
                    /\ geodata_cache' = geodata_cache]_vars

\* The file could not be opened: no file of that name, 200 and the entry.
C19_Witness ==
    \E w \in Workers :
        /\ pc[w] = "done" /\ resp[w].status = 200
        /\ stored[w]
        /\ layer_name[w] \notin DOMAIN cwd
        /\ DictHas(geodata_cache, layer_name[w])

====
